---- MODULE Spec2Model ----
(***************************************************************************)
(* Turkish licence plate scoring engine of DiscordPlateBot (scoring.js)    *)
(* and the calls the bot makes into it.                                    *)
(*                                                                         *)
(* A JavaScript string is a sequence of one-character strings.  A score is *)
(* a multiple of 1/2 and is held as the integer 2*x ("halves"); the total  *)
(* score is a product of four such values and is held in sixteenths.       *)
(***************************************************************************)
EXTENDS Integers, Sequences, FiniteSets, TLC

(***************************************************************************)
(* Characters and the JavaScript string primitives the engine uses.        *)
(***************************************************************************)

\* The printable ASCII characters in code order, the grave accent (code 96)
\* left out: Ascii[i] has code i + 31 up to "_" and code i + 32 from "a" on.
Ascii ==
  << " ", "!", "\"", "#", "$", "%", "&", "'", "(", ")", "*", "+", ",", "-", ".", "/",
     "0", "1", "2", "3", "4", "5", "6", "7", "8", "9", ":", ";", "<", "=", ">", "?",
     "@", "A", "B", "C", "D", "E", "F", "G", "H", "I", "J", "K", "L", "M", "N", "O",
     "P", "Q", "R", "S", "T", "U", "V", "W", "X", "Y", "Z", "[", "\\", "]", "^", "_",
     "a", "b", "c", "d", "e", "f", "g", "h", "i", "j", "k", "l", "m", "n", "o",
     "p", "q", "r", "s", "t", "u", "v", "w", "x", "y", "z", "{", "|", "}", "~" >>

\* String.prototype.charCodeAt for one character (tab is the only control
\* character of the model).
charCode(c) ==
  IF c = "\t" THEN 9
  ELSE LET i == CHOOSE j \in DOMAIN Ascii : Ascii[j] = c
       IN  IF i <= 64 THEN i + 31 ELSE i + 32

\* String.fromCharCode for a printable code other than 96.
fromCharCode(n) == IF n <= 95 THEN Ascii[n - 31] ELSE Ascii[n - 32]

\* The regular expression class \d.
Digit == {"0", "1", "2", "3", "4", "5", "6", "7", "8", "9"}

\* The regular expression class [A-Z].
UpperLetter == {Ascii[i] : i \in 34..59}

\* The lower case letters a-z.
LowerLetter == {Ascii[i] : i \in 65..90}

\* The regular expression class [\s-], restricted to the characters modelled.
Separator == {" ", "\t", "-"}

\* Mutant of toUpperCase: the text is left in the case it came in.
toUpperCase_identity(s) == s

\* String.prototype.toUpperCase.
toUpperCase(s) ==
  [i \in DOMAIN s |-> IF s[i] \in LowerLetter
                        THEN fromCharCode(charCode(s[i]) - 32)
                        ELSE s[i]]

\* s.replace(/[\s-]/g, ""): s without its separator characters.
RECURSIVE replaceSeparators(_)
replaceSeparators(s) ==
  IF s = <<>> THEN <<>>
  ELSE IF Head(s) \in Separator THEN replaceSeparators(Tail(s))
  ELSE <<Head(s)>> \o replaceSeparators(Tail(s))

\* Mutant of substring: one character too many is dropped.
substring_fromNext(s, start) ==
  IF start + 1 >= Len(s) THEN <<>> ELSE SubSeq(s, start + 2, Len(s))

\* String.prototype.substring(start) with start >= 0.
substring(s, start) ==
  IF start >= Len(s) THEN <<>> ELSE SubSeq(s, start + 1, Len(s))

\* String.prototype.padStart(n, c).
padStart(s, n, c) ==
  IF Len(s) >= n THEN s ELSE [i \in 1..(n - Len(s)) |-> c] \o s

\* String.prototype.includes.
includes(s, pattern) ==
  \E i \in 0..(Len(s) - Len(pattern)) : SubSeq(s, i + 1, i + Len(pattern)) = pattern

\* The relational operator < on strings: code unit by code unit.
RECURSIVE strLess(_, _)
strLess(a, b) ==
  IF b = <<>> THEN FALSE
  ELSE IF a = <<>> THEN TRUE
  ELSE IF charCode(Head(a)) # charCode(Head(b))
    THEN charCode(Head(a)) < charCode(Head(b))
  ELSE strLess(Tail(a), Tail(b))

\* Mutant of strLessEq: the comparison is strict.
strLessEq_strict(a, b) == strLess(a, b)

\* The relational operator <= on strings.
strLessEq(a, b) == a = b \/ strLess(a, b)

\* The value null (a failed match).
null == <<>>

\* s.match(/^(C{1,max})/) for a character class C: null, or the array
\* <<whole match, group 1>>.  The quantifier is greedy.
match(s, Class, max) ==
  LET bound == IF Len(s) < max THEN Len(s) ELSE max
      n == CHOOSE k \in 0..bound :
             /\ \A i \in 1..k : s[i] \in Class
             /\ k = bound \/ s[k + 1] \notin Class
  IN  IF n = 0 THEN null ELSE <<SubSeq(s, 1, n), SubSeq(s, 1, n)>>

\* The values NaN and undefined.
NaN == 0 - 1
undefined == 0 - 2

\* x || d on numbers: d when x is falsy (NaN, undefined or 0).
orElse(x, d) == IF x = NaN \/ x = undefined \/ x = 0 THEN d ELSE x

\* parseInt on a string: the value of its leading run of decimal digits, NaN
\* when there is none.
RECURSIVE decimalValue(_)
decimalValue(s) ==
  IF s = <<>> THEN 0
  ELSE 10 * decimalValue(SubSeq(s, 1, Len(s) - 1)) + (charCode(s[Len(s)]) - 48)

parseInt(s) ==
  LET m == match(s, Digit, Len(s))
  IN  IF m = null THEN NaN ELSE decimalValue(m[1])

\* A thrown TypeError, as the value of the call that threw it.
TypeError == [exception |-> "TypeError"]

\* Whether a call's value (a record) is a thrown exception.
Threw(v) == "exception" \in DOMAIN v

(***************************************************************************)
(* Scores: the number x is held as 2*x.                                    *)
(***************************************************************************)
Whole(n) == 2 * n
AndAHalf(n) == 2 * n + 1

(***************************************************************************)
(* The reference tables of scoring.js.                                     *)
(***************************************************************************)
Tier1Codes ==
  { <<"0","1">>, <<"0","6">>, <<"0","7">>, <<"1","6">>, <<"3","4">>, <<"3","5">> }

Tier2Codes ==
  { <<"0","2">>, <<"0","4">>, <<"0","9">>, <<"1","0">>, <<"1","1">>, <<"2","0">>,
    <<"2","1">>, <<"2","5">>, <<"2","6">>, <<"2","7">>, <<"3","1">>, <<"3","8">>,
    <<"4","1">>, <<"4","2">>, <<"4","3">>, <<"4","4">>, <<"4","5">>, <<"4","6">>,
    <<"4","7">>, <<"4","8">>, <<"5","4">>, <<"5","5">>, <<"5","9">>, <<"6","1">> }

Tier3Codes ==
  { <<"0","3">>, <<"0","5">>, <<"0","8">>, <<"1","2">>, <<"1","3">>, <<"1","4">>,
    <<"1","5">>, <<"1","7">>, <<"1","8">>, <<"1","9">>, <<"2","2">>, <<"2","3">>,
    <<"2","4">>, <<"2","8">>, <<"2","9">>, <<"3","0">>, <<"3","2">>, <<"3","6">>,
    <<"3","7">>, <<"3","9">>, <<"4","0">>, <<"4","9">>, <<"5","0">>, <<"5","1">>,
    <<"5","2">>, <<"5","3">>, <<"5","6">>, <<"5","7">>, <<"5","8">>, <<"6","0">>,
    <<"6","2">>, <<"6","3">>, <<"6","4">>, <<"6","5">>, <<"6","6">>, <<"6","7">>,
    <<"6","8">>, <<"6","9">>, <<"7","0">>, <<"7","1">>, <<"7","2">>, <<"7","3">>,
    <<"7","4">>, <<"7","7">>, <<"7","8">>, <<"7","9">>, <<"8","0">> }

Tier4Codes ==
  { <<"3","3">>, <<"7","5">>, <<"7","6">>, <<"8","1">> }

\* The property name "default".
DefaultKey == <<"d", "e", "f", "a", "u", "l", "t">>

\* The object literal provinceTiers.
provinceTiersLiteral ==
  [k \in Tier1Codes \cup Tier2Codes \cup Tier3Codes \cup Tier4Codes \cup {DefaultKey} |->
     IF k \in Tier1Codes THEN AndAHalf(1)
     ELSE IF k \in Tier2Codes THEN AndAHalf(2)
     ELSE IF k \in Tier3Codes THEN Whole(5)
     ELSE IF k \in Tier4Codes THEN Whole(10)
     ELSE Whole(1)]

\* The object literal specialPlateTypes.
specialPlateTypesLiteral ==
  [ STANDARD |-> Whole(1), UNIVERSITY |-> Whole(15), POLICE |-> Whole(20),
    GENDARMERIE |-> Whole(25), COAST_GUARD |-> Whole(25), DIPLOMATIC |-> Whole(30),
    CONSULATE |-> Whole(25), FOREIGN |-> Whole(20), TAXI |-> Whole(15) ]

\* The array sequentialPatterns, built anew by every call of isSequential.
sequentialPatterns ==
  << <<"A","B","C">>, <<"B","C","D">>, <<"C","D","E">>, <<"D","E","F">>,
     <<"E","F","G">>, <<"F","G","H">>, <<"G","H","I">>, <<"H","I","J">>,
     <<"I","J","K">>, <<"J","K","L">>, <<"K","L","M">>, <<"L","M","N">>,
     <<"M","N","O">>, <<"N","O","P">>, <<"O","P","R">>, <<"P","R","S">>,
     <<"R","S","T">>, <<"S","T","U">>, <<"T","U","V">>, <<"U","V","Y">>,
     <<"V","Y","Z">> >>

\* obj[key]: the property's value, undefined when the object has none.
property(obj, key) == IF key \in DOMAIN obj THEN obj[key] ELSE undefined

(***************************************************************************)
(* State: the two module-level tables scoring.js exports, and the calls    *)
(* made into the engine.                                                   *)
(***************************************************************************)
VARIABLES
  provinceTiers,      \* the exported object provinceTiers
  specialPlateTypes,  \* the exported object specialPlateTypes
  plateText,          \* the argument of the call being made
  called,             \* the exported function called with it, "none" before the call
  ret,                \* what that call returned (a record; detectPlateType's
                      \* string is held as [plateType |-> string])
  calls,              \* the calls completed so far: [fn, plateText, ret]
  store,              \* the documents of the Plate collection, oldest first
  interactions        \* the slash-command interactions received, each with the
                      \* state of the handler running for it

vars == <<provinceTiers, specialPlateTypes, plateText, called, ret, calls,
         store, interactions>>

(***************************************************************************)
(* scoring.js                                                              *)
(***************************************************************************)

\* Mutant of parseTurkishPlate: group 1 of the letters match is read without
\* testing the match for null.
parseTurkishPlate_unguarded(text) ==
  LET normalized == toUpperCase(replaceSeparators(text))
      provinceMatch == match(normalized, Digit, 2)
      provinceCode == IF provinceMatch # null
                        THEN padStart(provinceMatch[2], 2, "0")
                        ELSE <<>>
      remainingText == substring(normalized, Len(provinceCode))
      lettersMatch == match(remainingText, UpperLetter, Len(remainingText))
  IN  IF lettersMatch = null THEN TypeError
      ELSE
        LET letters == lettersMatch[2]
            remainingText2 == substring(remainingText, Len(letters))
            digitsMatch == match(remainingText2, Digit, Len(remainingText2))
            digits == IF digitsMatch # null THEN digitsMatch[2] ELSE <<>>
        IN  [provinceCode |-> provinceCode, letters |-> letters, digits |-> digits]

\* function parseTurkishPlate(plateText)
parseTurkishPlate(text) ==
  LET normalized == toUpperCase(replaceSeparators(text))
      provinceMatch == match(normalized, Digit, 2)
      provinceCode == IF provinceMatch # null
                        THEN padStart(provinceMatch[2], 2, "0")
                        ELSE <<>>
      remainingText == substring(normalized, Len(provinceCode))
      lettersMatch == match(remainingText, UpperLetter, Len(remainingText))
      letters == IF lettersMatch # null THEN lettersMatch[2] ELSE <<>>
      remainingText2 == substring(remainingText, Len(letters))
      digitsMatch == match(remainingText2, Digit, Len(remainingText2))
      digits == IF digitsMatch # null THEN digitsMatch[2] ELSE <<>>
  IN  [provinceCode |-> provinceCode, letters |-> letters, digits |-> digits]

\* Mutant of ruleMatches: the POLICE rule names "AA" in place of "AAA".
ruleMatches_policeAA(k, letters) ==
  CASE k = 1 -> letters = <<"A","A">>
    [] k = 2 -> letters = <<"A">> \/ letters = <<"A","A">>
    [] k = 3 -> letters = <<"J","A","A">>
    [] k = 4 -> letters = <<"S","G","H">>
    [] k = 5 -> letters = <<"C","D">>
    [] k = 6 -> letters = <<"C","C">>
    [] k = 7 -> /\ Len(letters) = 2
                /\ strLessEq(<<"M","A">>, letters)
                /\ strLessEq(letters, <<"M","Z">>)
    [] k = 8 -> /\ Len(letters) = 3
                /\ strLessEq(<<"T","A","A">>, letters)
                /\ strLessEq(letters, <<"T","K","Z">>)

\* The condition of the k-th if statement of detectPlateType, and the type it
\* returns.
ruleMatches(k, letters) ==
  CASE k = 1 -> letters = <<"A","A">>
    [] k = 2 -> letters = <<"A">> \/ letters = <<"A","A","A">>
    [] k = 3 -> letters = <<"J","A","A">>
    [] k = 4 -> letters = <<"S","G","H">>
    [] k = 5 -> letters = <<"C","D">>
    [] k = 6 -> letters = <<"C","C">>
    [] k = 7 -> /\ Len(letters) = 2
                /\ strLessEq(<<"M","A">>, letters)
                /\ strLessEq(letters, <<"M","Z">>)
    [] k = 8 -> /\ Len(letters) = 3
                /\ strLessEq(<<"T","A","A">>, letters)
                /\ strLessEq(letters, <<"T","K","Z">>)

ruleType ==
  << "UNIVERSITY", "POLICE", "GENDARMERIE", "COAST_GUARD", "DIPLOMATIC",
     "CONSULATE", "FOREIGN", "TAXI" >>

\* function detectPlateType(letters)
detectPlateType(letters) ==
  IF letters = <<"A","A">> THEN "UNIVERSITY"
  ELSE IF letters = <<"A">> \/ letters = <<"A","A","A">> THEN "POLICE"
  ELSE IF letters = <<"J","A","A">> THEN "GENDARMERIE"
  ELSE IF letters = <<"S","G","H">> THEN "COAST_GUARD"
  ELSE IF letters = <<"C","D">> THEN "DIPLOMATIC"
  ELSE IF letters = <<"C","C">> THEN "CONSULATE"
  ELSE IF /\ Len(letters) = 2
          /\ strLessEq(<<"M","A">>, letters)
          /\ strLessEq(letters, <<"M","Z">>) THEN "FOREIGN"
  ELSE IF /\ Len(letters) = 3
          /\ strLessEq(<<"T","A","A">>, letters)
          /\ strLessEq(letters, <<"T","K","Z">>) THEN "TAXI"
  ELSE "STANDARD"

\* function isSequential(letters)
isSequential(letters) ==
  \E i \in DOMAIN sequentialPatterns : includes(letters, sequentialPatterns[i])

\* new Set(letters.split("")).size === 1
allSameLetter(letters) == Cardinality({letters[i] : i \in DOMAIN letters}) = 1

\* Mutant of provinceScoreOf: a province the table lacks scores 0.
provinceScoreOf_zeroDefault(provinceCode) ==
  orElse(property(provinceTiers, provinceCode), 0)

\* Mutant of provinceScoreOf: the operands of || are swapped.
provinceScoreOf_defaultFirst(provinceCode) ==
  orElse(provinceTiers[DefaultKey], property(provinceTiers, provinceCode))

\* provinceTiers[provinceCode] || provinceTiers.default
provinceScoreOf(provinceCode) ==
  orElse(property(provinceTiers, provinceCode), provinceTiers[DefaultKey])

\* Mutant of letterPatternScore: three identical letters keep the score 20
\* of the first branch.
letterPatternScore_noOverride(plateType, letters) ==
  IF plateType = "STANDARD" /\ letters # <<>> /\ Len(letters) >= 2
    THEN IF allSameLetter(letters)
           THEN (IF Len(letters) >= 3 THEN Whole(20) ELSE Whole(10))
         ELSE IF isSequential(letters) THEN Whole(5)
         ELSE Whole(1)
    ELSE Whole(1)

\* The letter pattern score of calculatePlateScore, before the letter product
\* is added.
letterPatternScore(plateType, letters) ==
  IF plateType = "STANDARD" /\ letters # <<>> /\ Len(letters) >= 2
    THEN LET first == IF allSameLetter(letters)
                        THEN (IF Len(letters) >= 3 THEN Whole(20) ELSE Whole(10))
                      ELSE IF isSequential(letters) THEN Whole(5)
                      ELSE Whole(1)
         IN  IF Len(letters) >= 3 /\ allSameLetter(letters)
               THEN AndAHalf(7)
               ELSE first
    ELSE Whole(1)

\* The loop computing letterSum: the product of the alphabet positions.
RECURSIVE letterSumOf(_)
letterSumOf(letters) ==
  IF letters = <<>> THEN 1
  ELSE LET letterPosition == charCode(Head(letters)) - 64
       IN  IF letterPosition >= 1 /\ letterPosition <= 26
             THEN letterPosition * letterSumOf(Tail(letters))
             ELSE letterSumOf(Tail(letters))

\* The loop computing digitSum.
RECURSIVE digitSumOf(_)
digitSumOf(digitString) ==
  IF digitString = <<>> THEN 0
  ELSE orElse(parseInt(<<Head(digitString)>>), 1) + digitSumOf(Tail(digitString))

\* Mutant of digitScoreOf: the tiers end one below their last value.
digitScoreOf_strict(digits) ==
  LET numDigits == orElse(parseInt(digits), 1)
  IN  IF numDigits < 9 THEN Whole(10)
      ELSE IF numDigits < 99 THEN Whole(5)
      ELSE IF numDigits < 999 THEN AndAHalf(2)
      ELSE Whole(1)

\* The tier of the digit block's value.
digitScoreOf(digits) ==
  LET numDigits == orElse(parseInt(digits), 1)
  IN  IF numDigits <= 9 THEN Whole(10)
      ELSE IF numDigits <= 99 THEN Whole(5)
      ELSE IF numDigits <= 999 THEN AndAHalf(2)
      ELSE Whole(1)

\* specialPlateTypes[plateType] || 1
specialScoreOf(plateType) ==
  orElse(property(specialPlateTypes, plateType), Whole(1))

\* Mutant of calculatePlateScore: the total is rounded to a whole number.
calculatePlateScore_rounded(text) ==
  LET parsed == parseTurkishPlate(text)
  IN  IF Threw(parsed) THEN parsed
      ELSE
        LET plateType == detectPlateType(parsed.letters)
            provinceScore == provinceScoreOf(parsed.provinceCode)
            letterScore == letterPatternScore(plateType, parsed.letters)
                             + Whole(letterSumOf(parsed.letters))
            digitSum == Whole(digitSumOf(parsed.digits))
            digitScore == digitScoreOf(parsed.digits)
            specialScore == specialScoreOf(plateType)
            totalScore == (letterScore + digitSum) * digitScore * provinceScore * specialScore
        IN  [ totalScore |-> 16 * ((totalScore + 8) \div 16),
              plateType |-> plateType,
              breakdown |-> [ province |-> provinceScore,
                              letters |-> letterScore,
                              digits |-> digitScore,
                              digitsum |-> digitSum,
                              special |-> specialScore ],
              parsed |-> parsed ]

\* function calculatePlateScore(plateText).  An exception thrown by the parser
\* propagates.  breakdown holds halves, totalScore sixteenths.
calculatePlateScore(text) ==
  LET parsed == parseTurkishPlate(text)
  IN  IF Threw(parsed) THEN parsed
      ELSE
        LET plateType == detectPlateType(parsed.letters)
            provinceScore == provinceScoreOf(parsed.provinceCode)
            letterScore == letterPatternScore(plateType, parsed.letters)
                             + Whole(letterSumOf(parsed.letters))
            digitSum == Whole(digitSumOf(parsed.digits))
            digitScore == digitScoreOf(parsed.digits)
            specialScore == specialScoreOf(plateType)
            totalScore == (letterScore + digitSum) * digitScore * provinceScore * specialScore
        IN  [ totalScore |-> totalScore,
              plateType |-> plateType,
              breakdown |-> [ province |-> provinceScore,
                              letters |-> letterScore,
                              digits |-> digitScore,
                              digitsum |-> digitSum,
                              special |-> specialScore ],
              parsed |-> parsed ]

(***************************************************************************)
(* The plate texts the calls are made with.                                *)
(***************************************************************************)

\* The strings over S of length lo..hi.
Strs(S, lo, hi) == UNION {[1..n -> S] : n \in lo..hi}

\* The canonical shape /^\d{1,2}[A-Z]{1,3}\d{1,4}$/ the bot validates against.
MaxProvinceDigits == 2
MaxLetters == 3
MaxDigits == 4

IsCanonical(text) ==
  \E i \in 1..MaxProvinceDigits, j \in 1..MaxLetters, k \in 1..MaxDigits :
     /\ Len(text) = i + j + k
     /\ \A n \in 1..i : text[n] \in Digit
     /\ \A n \in (i + 1)..(i + j) : text[n] \in UpperLetter
     /\ \A n \in (i + j + 1)..(i + j + k) : text[n] \in Digit

\* Longest arbitrary text tried.
MaxLen == 4

\* Arbitrary texts: digits, a letter in both cases, a separator, a stray character.
SmallAlphabet == {"3", "0", "A", "b", "-", "#"}
AnyTexts == Strs(SmallAlphabet, 0, MaxLen)

\* The parts canonical texts are put together from.
ProvincePrefixes == Strs(Digit, 1, MaxProvinceDigits)
LetterSample == {"A", "B", "C", "D", "G", "H", "J", "K", "L", "M", "S", "T", "Z"}
LetterBlocks == Strs(LetterSample, 1, MaxLetters)
DigitSample == {"0", "1", "2", "9"}
DigitBlocks == Strs(DigitSample, 1, MaxDigits)
SomePrefixes == { <<"3","4">>, <<"6">> }
SomeLetters == { <<"A","B">>, <<"A","A">>, <<"A","B","C">> }
SomeDigits == { <<"1">>, <<"1","2","3">> }

\* Canonical texts: each part in turn runs over all its values.
CanonicalTexts ==
  {p \o l \o d : p \in ProvincePrefixes, l \in SomeLetters, d \in SomeDigits}
  \cup {p \o l \o <<"1">> : p \in SomePrefixes, l \in LetterBlocks}
  \cup {p \o l \o d : p \in SomePrefixes, l \in SomeLetters, d \in DigitBlocks}

\* The plates of the documentation, two written with separators in lower case,
\* and arguments of detectPlateType at the edges of its two ranges.
ExampleTexts ==
  { <<"3","4","A","B","1","2","3">>, <<"0","6","A","A","0","1">>,
    <<"8","1","B","B","1">>, <<"9","9","A","B","1">>, <<"X","Y">>,
    <<"3","4"," ","a","b","-","1","2","3">>, <<"6","\t","t","a","b"," ","0","7">>,
    <<"M","#">>, <<"M","b">>, <<"T","B","#">>, <<"T","K","b">>, <<"T","A","#">> }

Inputs == AnyTexts \cup CanonicalTexts \cup LetterBlocks \cup ExampleTexts

(***************************************************************************)
(* One call into the engine.                                               *)
(***************************************************************************)
NoReturn == [pending |-> TRUE]

Init ==
  /\ provinceTiers = provinceTiersLiteral
  /\ specialPlateTypes = specialPlateTypesLiteral
  /\ plateText \in Inputs
  /\ called = "none"
  /\ ret = NoReturn
  /\ calls = <<>>
  /\ store = <<>>
  /\ interactions = <<>>

\* The call fn(plateText) returning r.
Return(fn, r) ==
  /\ called' = fn
  /\ ret' = r
  /\ calls' = Append(calls, [fn |-> fn, plateText |-> plateText, ret |-> r])

CallParseTurkishPlate ==
  /\ called = "none"
  /\ Return("parseTurkishPlate", parseTurkishPlate(plateText))
  /\ UNCHANGED <<provinceTiers, specialPlateTypes, plateText, store, interactions>>

CallDetectPlateType ==
  /\ called = "none"
  /\ Return("detectPlateType", [plateType |-> detectPlateType(plateText)])
  /\ UNCHANGED <<provinceTiers, specialPlateTypes, plateText, store, interactions>>

\* Mutant of CallCalculatePlateScore: the province score found is stored as
\* the table's default.
CallCalculatePlateScore_storesDefault ==
  /\ called = "none"
  /\ Return("calculatePlateScore", calculatePlateScore(plateText))
  /\ provinceTiers' =
       [provinceTiers EXCEPT ![DefaultKey] =
          provinceScoreOf(parseTurkishPlate(plateText).provinceCode)]
  /\ UNCHANGED <<specialPlateTypes, plateText, store, interactions>>

CallCalculatePlateScore ==
  /\ called = "none"
  /\ Return("calculatePlateScore", calculatePlateScore(plateText))
  /\ UNCHANGED <<provinceTiers, specialPlateTypes, plateText, store, interactions>>

Next ==
  \/ CallParseTurkishPlate
  \/ CallDetectPlateType
  \/ CallCalculatePlateScore

Spec == Init /\ [][Next]_vars

(***************************************************************************)
(* A sequence of calls into the engine.  A call runs to its return before  *)
(* the next starts: the engine is synchronous.                             *)
(***************************************************************************)

\* Most calls made in a row.
MaxCalls == 3

\* The texts of the calls: a province the table lacks, and two it has.
SeqTexts ==
  { <<"9","9","A","B","1">>, <<"3","4","A","B","1","2","3">>,
    <<"0","6","A","A","0","1">> }

InitSeq ==
  /\ provinceTiers = provinceTiersLiteral
  /\ specialPlateTypes = specialPlateTypesLiteral
  /\ plateText \in SeqTexts
  /\ called = "none"
  /\ ret = NoReturn
  /\ calls = <<>>
  /\ store = <<>>
  /\ interactions = <<>>

\* The caller goes on to its next call.
NextCall ==
  /\ called # "none"
  /\ Len(calls) < MaxCalls
  /\ \E t \in SeqTexts : plateText' = t
  /\ called' = "none"
  /\ ret' = NoReturn
  /\ UNCHANGED <<provinceTiers, specialPlateTypes, calls, store, interactions>>

NextSeq ==
  \/ CallParseTurkishPlate
  \/ CallDetectPlateType
  \/ CallCalculatePlateScore
  \/ NextCall

SpecSeq == InitSeq /\ [][NextSeq]_vars

\* The states in which calculatePlateScore(plateText) has returned ret.
Scored == called = "calculatePlateScore"

\* The states in which parseTurkishPlate(plateText) has returned ret.
Parsed == called = "parseTurkishPlate"

\* The states in which detectPlateType(plateText) has returned ret.
Detected == called = "detectPlateType"

(***************************************************************************)
(* Properties.  "34AB123" is written <<"3","4","A","B","1","2","3">>; a     *)
(* total score t is written Sixteenths(n, d) for t = n/d.                   *)
(***************************************************************************)

\* The total score n/d, in sixteenths.
Sixteenths(n, d) == (16 * n) \div d

\* The parts of a canonical text: its province digits, the letters after
\* them, and the digits after those.
ProvincePart(text) ==
  IF text[2] \in Digit THEN SubSeq(text, 1, 2) ELSE SubSeq(text, 1, 1)

LetterPart(text) ==
  LET from == Len(ProvincePart(text)) + 1
      to == CHOOSE k \in from..Len(text) :
              /\ \A n \in from..k : text[n] \in UpperLetter
              /\ text[k + 1] \notin UpperLetter
  IN  SubSeq(text, from, to)

DigitPart(text) ==
  SubSeq(text, Len(ProvincePart(text)) + Len(LetterPart(text)) + 1, Len(text))

\* C1: for every plate text of the canonical shape, calculatePlateScore
\* returns without throwing, and the total score it returns is greater than 0.
C1_CanonicalScorePositive ==
  (Scored /\ IsCanonical(plateText)) => (~Threw(ret) /\ ret.totalScore > 0)

\* A canonical plate has been scored, with a province the table does not hold.
C1_Witness ==
  /\ Scored
  /\ IsCanonical(plateText)
  /\ property(provinceTiersLiteral, ret.parsed.provinceCode) = undefined
  /\ ret.totalScore > 0

\* C2: for every canonical text, with a 1-digit as with a 2-digit province,
\* parseTurkishPlate returns the province digits padded to 2 characters, the
\* whole run of letters after the province digits, and the whole run of digits
\* after those letters.
C2_ParseCanonical ==
  (Parsed /\ IsCanonical(plateText)) =>
     /\ ret.provinceCode = padStart(ProvincePart(plateText), 2, "0")
     /\ ret.letters = LetterPart(plateText)
     /\ ret.digits = DigitPart(plateText)

\* C3 as stated: for every canonical text, provinceCode + letters + digits of
\* its parse is the text again.
C3_RoundTripAnyCanonical ==
  (Parsed /\ IsCanonical(plateText)) =>
     ret.provinceCode \o ret.letters \o ret.digits = plateText

\* C3, amended: for every canonical text with a 2-digit province,
\* provinceCode + letters + digits of its parse is the text again.
C3_RoundTripTwoDigitProvince ==
  (Parsed /\ IsCanonical(plateText) /\ Len(ProvincePart(plateText)) = 2) =>
     ret.provinceCode \o ret.letters \o ret.digits = plateText

\* A canonical text with a 2-digit province, 3 letters and 4 digits has been
\* parsed into three non-empty parts.
C3_Witness ==
  /\ Parsed
  /\ IsCanonical(plateText)
  /\ Len(ProvincePart(plateText)) = 2
  /\ Len(ret.letters) = MaxLetters
  /\ Len(ret.digits) = MaxDigits

\* The sum of the values of the decimal digits of a digit block.
RECURSIVE ArithmeticDigitSum(_)
ArithmeticDigitSum(digits) ==
  IF digits = <<>> THEN 0
  ELSE (charCode(Head(digits)) - 48) + ArithmeticDigitSum(Tail(digits))

\* C4: breakdown.digitsum is the arithmetic sum of the digits of the digit
\* block, a "0" counting 0; "06AA01" has digit sum 1 and total score 675.
C4_DigitSumArithmetic ==
  Scored =>
     /\ ret.breakdown.digitsum = Whole(ArithmeticDigitSum(ret.parsed.digits))
     /\ plateText = <<"0","6","A","A","0","1">> =>
          /\ ret.breakdown.digitsum = Whole(1)
          /\ ret.totalScore = Sixteenths(675, 1)

\* The plate type the classification rules give a letter block, the two
\* ranges spelt out character by character.
InForeignRange(b) ==
  /\ Len(b) = 2
  /\ b[1] = "M"
  /\ charCode(b[2]) >= charCode("A") /\ charCode(b[2]) <= charCode("Z")

InTaxiRange(b) ==
  /\ Len(b) = 3
  /\ b[1] = "T"
  /\ \/ charCode(b[2]) > charCode("A")
     \/ b[2] = "A" /\ charCode(b[3]) >= charCode("A")
  /\ \/ charCode(b[2]) < charCode("K")
     \/ b[2] = "K" /\ charCode(b[3]) <= charCode("Z")

ClassifiedAs(b) ==
  IF b = <<"A","A">> THEN "UNIVERSITY"
  ELSE IF b \in { <<"A">>, <<"A","A","A">> } THEN "POLICE"
  ELSE IF b = <<"J","A","A">> THEN "GENDARMERIE"
  ELSE IF b = <<"S","G","H">> THEN "COAST_GUARD"
  ELSE IF b = <<"C","D">> THEN "DIPLOMATIC"
  ELSE IF b = <<"C","C">> THEN "CONSULATE"
  ELSE IF InForeignRange(b) THEN "FOREIGN"
  ELSE IF InTaxiRange(b) THEN "TAXI"
  ELSE "STANDARD"

PlateTypes ==
  { "STANDARD", "UNIVERSITY", "POLICE", "GENDARMERIE", "COAST_GUARD",
    "DIPLOMATIC", "CONSULATE", "FOREIGN", "TAXI" }

\* C5: detectPlateType gives every letter block the one plate type of the
\* first rule it matches: AA; A or AAA; JAA; SGH; CD; CC; 2 letters in MA..MZ;
\* 3 letters in TAA..TKZ; otherwise (the empty block and blocks of more than 3
\* letters too) STANDARD.
C5_Classification ==
  Detected =>
     /\ ret.plateType \in PlateTypes
     /\ ret.plateType = ClassifiedAs(plateText)
     /\ (plateText = <<>> \/ Len(plateText) > MaxLetters) => ret.plateType = "STANDARD"
     /\ plateText = <<"M","B">> => ret.plateType = "FOREIGN"
     /\ plateText = <<"T","A","B">> => ret.plateType = "TAXI"
     /\ plateText = <<"X","Y">> => ret.plateType = "STANDARD"

\* The last block of the foreign range has been classified.
C5_Witness ==
  Detected /\ plateText = <<"M","Z">> /\ ret.plateType = "FOREIGN"

IsProvinceOfTable(code) ==
  /\ Len(code) = 2
  /\ code[1] \in Digit /\ code[2] \in Digit
  /\ decimalValue(code) >= 1 /\ decimalValue(code) <= 81

UpperCaseOf(c) ==
  IF \E i \in 65..90 : Ascii[i] = c
    THEN Ascii[(CHOOSE i \in 65..90 : Ascii[i] = c) - 31]
    ELSE c

Normalize(text) ==
  LET upper == [i \in DOMAIN text |-> UpperCaseOf(text[i])]
  IN  SelectSeq(upper, LAMBDA c : c \notin {" ", "\t", "-"})

\* C8: parsing a text and parsing its normalization give the same ParsedPlate,
\* so texts that differ in case, spaces or hyphens only parse alike, and
\* normalizing a normalized text changes nothing.
C8_ParseOfNormalized ==
  Parsed =>
     /\ ret = parseTurkishPlate(Normalize(plateText))
     /\ Normalize(Normalize(plateText)) = Normalize(plateText)

\* A text with a lower case letter and a separator has been parsed, and the
\* letter is part of the letter block.
C8_Witness ==
  /\ Parsed
  /\ \E i \in DOMAIN plateText : plateText[i] \in LowerLetter
  /\ \E i \in DOMAIN plateText : plateText[i] \in Separator
  /\ ret.letters # <<>>

\* C9: for every text, malformed ones too, calculatePlateScore returns without
\* throwing, with every field of the result set; a component the text lacks is
\* the empty string, an absent province code scores 1 and an empty letter block
\* is STANDARD.
C9_MalformedDegrades ==
  Scored =>
     /\ ~Threw(ret)
     /\ DOMAIN ret = {"totalScore", "plateType", "breakdown", "parsed"}
     /\ ret.plateType \in PlateTypes
     /\ ret.totalScore > 0
     /\ \A f \in {"province", "letters", "digits", "special"} : ret.breakdown[f] > 0
     /\ ret.breakdown.digitsum >= 0
     /\ LET text == Normalize(plateText)
        IN  /\ (text = <<>> \/ text[1] \notin Digit) => ret.parsed.provinceCode = <<>>
            /\ (\A i \in DOMAIN text : text[i] \notin UpperLetter) => ret.parsed.letters = <<>>
            /\ (\A i \in DOMAIN text : text[i] \notin Digit) => ret.parsed.digits = <<>>
     /\ ret.parsed.provinceCode = <<>> => ret.breakdown.province = Whole(1)
     /\ ret.parsed.letters = <<>> => ret.plateType = "STANDARD"

\* A text with no digit and no letter in it has been scored.
C9_Witness ==
  /\ Scored
  /\ plateText # <<>>
  /\ ret.parsed = [provinceCode |-> <<>>, letters |-> <<>>, digits |-> <<>>]
  /\ ret.plateType = "STANDARD"

\* C10: over any sequence of calls into the engine the tables provinceTiers
\* and specialPlateTypes are never written, and two calls of one function with
\* one text return the same, whatever was called before or between them.
\* (sequentialPatterns is built anew by each call of isSequential.)
C10_TablesReadOnlyDeterministic ==
  [][ /\ provinceTiers' = provinceTiers
      /\ specialPlateTypes' = specialPlateTypes
      /\ \A i, j \in DOMAIN calls' :
           (calls'[i].fn = calls'[j].fn /\ calls'[i].plateText = calls'[j].plateText)
              => calls'[i].ret = calls'[j].ret ]_vars

\* A text of a province the table lacks has been scored twice, with a call
\* scoring another text in between.
C10_Witness ==
  /\ Len(calls) = 3
  /\ \A i \in 1..3 : calls[i].fn = "calculatePlateScore"
  /\ calls[1].plateText = <<"9","9","A","B","1">>
  /\ calls[2].plateText = <<"3","4","A","B","1","2","3">>
  /\ calls[3].plateText = calls[1].plateText
  /\ calls[3].ret = calls[1].ret
  /\ provinceTiers = provinceTiersLiteral

\* The 1-based position of an upper-case letter in the alphabet A..Z.
AlphabetPosition(c) == CHOOSE k \in 1..26 : Ascii[33 + k] = c

\* The product of the alphabet positions of the letters, 1 for no letters.
RECURSIVE ProductOfPositions(_)
ProductOfPositions(letters) ==
  IF letters = <<>> THEN 1
  ELSE AlphabetPosition(Head(letters)) * ProductOfPositions(Tail(letters))

\* The 21 ascending triples: three neighbours in the alphabet of the plates,
\* which has no Q, W or X.
PlateAlphabet ==
  << "A","B","C","D","E","F","G","H","I","J","K","L","M","N","O","P",
     "R","S","T","U","V","Y","Z" >>
AscendingTriples == {SubSeq(PlateAlphabet, i, i + 2) : i \in 1..(Len(PlateAlphabet) - 2)}

ContainsTriple(letters) ==
  \E i \in 1..(Len(letters) - 2) : SubSeq(letters, i, i + 2) \in AscendingTriples

AllIdentical(letters) == \A i \in DOMAIN letters : letters[i] = letters[1]

\* The pattern value of a letter block of a plate type, in halves.
PatternValue(plateType, letters) ==
  IF plateType # "STANDARD" \/ Len(letters) < 2 THEN Whole(1)
  ELSE IF AllIdentical(letters) /\ Len(letters) = 2 THEN Whole(10)
  ELSE IF AllIdentical(letters) THEN AndAHalf(7)
  ELSE IF ContainsTriple(letters) THEN Whole(5)
  ELSE Whole(1)

RECURSIVE BlockValue(_)
BlockValue(digits) ==
  IF digits = <<>> THEN 0
  ELSE 10 * BlockValue(SubSeq(digits, 1, Len(digits) - 1))
         + (charCode(digits[Len(digits)]) - charCode("0"))

\* The value n the digit score is taken from: an empty or zero-valued block
\* counts as 1.
ValueOfBlock(digits) == IF BlockValue(digits) = 0 THEN 1 ELSE BlockValue(digits)

\* The digit tier of n, in halves.
DigitTier(n) ==
  IF n <= 9 THEN Whole(10)
  ELSE IF n <= 99 THEN Whole(5)
  ELSE IF n <= 999 THEN AndAHalf(2)
  ELSE Whole(1)

\* The values at which the tier changes, and next to them.
TierEdges == {1, 9, 10, 99, 100, 999, 1000, 9999}

\* C14: breakdown.digits is the tier of the value n of the digit block
\* (leading zeros ignored, an empty or zero-valued block taken as 1): 10 up to
\* 9, 5 up to 99, 2.5 up to 999, 1 from 1000; no smaller value has a lower score
\* and no larger value a higher one.
C14_DigitScore ==
  (Scored /\ ~Threw(ret)) =>
     LET n == ValueOfBlock(ret.parsed.digits)
     IN  /\ ret.breakdown.digits = DigitTier(n)
         /\ \A m \in TierEdges :
              /\ m <= n => DigitTier(m) >= ret.breakdown.digits
              /\ m >= n => DigitTier(m) <= ret.breakdown.digits

\* "34AB0100" has been scored: the value of its digit block is 100, its digit
\* score 2.5.
C14_Witness ==
  /\ Scored
  /\ plateText = <<"3","4","A","B","0","1","0","0">>
  /\ ret.parsed.digits = <<"0","1","0","0">>
  /\ ret.breakdown.digits = AndAHalf(2)

\* The rules of detectPlateType a letter block matches.
MatchingRules(letters) == {k \in DOMAIN ruleType : ruleMatches(k, letters)}

\* The letter blocks the claim is about: up to 3 upper-case letters.
IsLetterBlock(text) ==
  /\ Len(text) <= MaxLetters
  /\ \A i \in DOMAIN text : text[i] \in UpperLetter

\* C15: a block of 0 to 3 letters A-Z matches at most one of the eight rules
\* of detectPlateType, so the type returned is that of the one matching rule
\* whatever the order of the rules (STANDARD when none matches), and the type
\* of a scored plate has an entry in specialPlateTypes: the default
\* multiplier 1 is never used.
C15_RulesDisjoint ==
  /\ (Detected /\ IsLetterBlock(plateText)) =>
        /\ Cardinality(MatchingRules(plateText)) <= 1
        /\ \A k \in MatchingRules(plateText) : ret.plateType = ruleType[k]
        /\ MatchingRules(plateText) = {} => ret.plateType = "STANDARD"
        /\ ret.plateType \in DOMAIN specialPlateTypes
  /\ (Scored /\ ~Threw(ret)) =>
        /\ ret.plateType \in DOMAIN specialPlateTypes
        /\ ret.breakdown.special = specialPlateTypes[ret.plateType]

\* detectPlateType("AA") has returned UNIVERSITY, the only rule "AA" matches
\* being the first.
C15_Witness ==
  /\ Detected
  /\ plateText = <<"A","A">>
  /\ MatchingRules(plateText) = {1}
  /\ ret.plateType = "UNIVERSITY"

(***************************************************************************)
(* index.js: the Plate collection.  A document is a record; its _id is the *)
(* number of the interaction whose handler built it with new Plate(...).   *)
(* Queries answer with documents oldest first.                             *)
(***************************************************************************)

\* required: true on a String path: the value must be a non-empty string.
requiredPaths ==
  {"userId", "username", "plateText", "provinceCode", "letters", "digits", "plateType"}

\* The validation save() runs before it writes.
validates(doc) ==
  \A path \in requiredPaths :
     IF path \in {"userId", "username", "plateType"}
       THEN doc[path] # ""
       ELSE doc[path] # <<>>

\* Mutant of violatesUniqueIndex: the index is not unique.
violatesUniqueIndex_notUnique(docs, doc) == FALSE

\* PlateSchema.index({ userId: 1, plateText: 1 }, { unique: true }): the
\* collection refuses a document whose pair of keys one of its documents has.
violatesUniqueIndex(docs, doc) ==
  \E n \in DOMAIN docs :
     docs[n].userId = doc.userId /\ docs[n].plateText = doc.plateText

\* Plate.find(filter), filter a set of <<path, value>>.
find(docs, filter) ==
  SelectSeq(docs, LAMBDA d : \A f \in filter : d[f[1]] = f[2])

\* Plate.findOne(filter)
findOne(docs, filter) ==
  LET found == find(docs, filter)
  IN  IF found = <<>> THEN null ELSE found[1]

\* The sum of f over the documents.
RECURSIVE sum(_, _)
sum(docs, path) ==
  IF docs = <<>> THEN 0 ELSE Head(docs)[path] + sum(Tail(docs), path)

\* The $group stage of the leaderboard: one entry for each value of _id.
group(docs) ==
  { [ _id |-> id,
      plateCount |-> Len(find(docs, {<<"userId", id.userId>>, <<"username", id.username>>})),
      totalScore |-> sum(find(docs, {<<"userId", id.userId>>, <<"username", id.username>>}),
                         "totalScore") ] :
      id \in {[userId |-> docs[n].userId, username |-> docs[n].username] : n \in DOMAIN docs} }

\* The orders { $sort: { totalScore: -1 } } can put the entries in: entries
\* of one score come in any order.
sorted(entries) ==
  { order \in [1..Cardinality(entries) -> entries] :
      /\ \A e \in entries : \E n \in DOMAIN order : order[n] = e
      /\ \A m, n \in DOMAIN order : m < n => order[m].totalScore >= order[n].totalScore }

\* { $limit: 10 } and .limit(10)
limit(docs, n) == SubSeq(docs, 1, IF Len(docs) < n THEN Len(docs) ELSE n)

(***************************************************************************)
(* index.js: the handler of interactionCreate.  It runs for one            *)
(* interaction up to its next await; the handlers of other interactions    *)
(* run in between.  A persistence operation either answers or rejects.     *)
(***************************************************************************)
MaxInteractions == 3

\* interaction.user: the second user has changed username.
Users ==
  { [id |-> "u1", username |-> "ann"],
    [id |-> "u2", username |-> "bob"],
    [id |-> "u2", username |-> "bobby"] }

\* Values of the option "plate".
PlateOptions ==
  { <<"3","4","a","b","-","1">>,
    <<"8","1","B","B","1">>,
    <<"A">> }

\* A message sent with interaction.reply: its text or the title of its
\* embed, and the entries it lists.
Message(text, data) == [text |-> text, data |-> data]

\* options.getString("plate").toUpperCase().replace(/[\s-]/g, "")
plateOption(plate) == replaceSeparators(toUpperCase(plate))

\* The handler called with an interaction, before its first statement.
handler(commandName, user, plate) ==
  [ commandName |-> commandName,
    user |-> user,
    plate |-> plate,
    plateText |-> <<>>,
    result |-> NoReturn,
    engine |-> <<>>,       \* the calls it made into scoring.js
    awaiting |-> "none",   \* the persistence operation it awaits
    replies |-> <<>>,      \* the messages it sent with interaction.reply
    caught |-> "none",     \* the error its catch block logged
    rejected |-> FALSE,    \* TRUE when an exception left the handler
    returned |-> FALSE ]

\* interaction.reply(message)
reply(h, message) == [h EXCEPT !.replies = Append(@, message)]

\* return, or the end of the handler.
return(h) == [h EXCEPT !.awaiting = "none", !.returned = TRUE]

\* await of a persistence operation.
await(h, operation) == [h EXCEPT !.awaiting = operation]

\* catch (err) { console.error(..., err); interaction.reply({ content }) }
catch(h, err, content) ==
  return(reply([h EXCEPT !.caught = err], Message(content, <<>>)))

\* An exception outside any try block: the promise of the handler rejects.
throw(h, err) == [return(h) EXCEPT !.rejected = TRUE]

\* A call fn(text) into scoring.js.
engineCall(h, fn, text) ==
  [h EXCEPT !.engine = Append(@, [fn |-> fn, plateText |-> text])]

\* The interaction.user of an interaction whose handler never reads it, and
\* of one that asks for the plates of its user.
AnyUser == [id |-> "u1", username |-> "ann"]
Asker == [id |-> "u2", username |-> "bobby"]

otherVars == <<provinceTiers, specialPlateTypes, plateText, called, ret, calls>>

\* The handler is called with a new interaction and runs up to h.
Receive(h) ==
  /\ Len(interactions) < MaxInteractions
  /\ interactions' = Append(interactions, h)

\* The handler of interaction i runs on, up to h.
Resume(i, h) == interactions' = [interactions EXCEPT ![i] = h]

Awaiting(i, commandNames, operation) ==
  /\ i \in DOMAIN interactions
  /\ interactions[i].commandName \in commandNames
  /\ interactions[i].awaiting = operation

\* /addplate from the call of calculatePlateScore, which returned result, up
\* to await Plate.findOne(...)
addplateScored(h, result) ==
  IF Threw(result) THEN throw(h, result.exception)
  ELSE await([h EXCEPT !.result = result], "findOne")

\* /addplate from the format check of the plate text.
addplateChecked(h) ==
  IF ~IsCanonical(h.plateText)
    THEN return(reply(h, Message("Invalid Turkish license plate format", <<>>)))
    ELSE addplateScored(engineCall(h, "calculatePlateScore", h.plateText),
                        calculatePlateScore(h.plateText))

\* /addplate, up to await Plate.findOne(...)
Addplate ==
  /\ \E user \in Users, plate \in PlateOptions :
       Receive(addplateChecked([handler("addplate", user, plate)
                                  EXCEPT !.plateText = plateOption(plate)]))
  /\ UNCHANGED <<store, otherVars>>

\* new Plate({ ... }) of the handler of interaction i.
newPlate(i) ==
  LET h == interactions[i]
  IN  [ _id |-> i,
        userId |-> h.user.id,
        username |-> h.user.username,
        plateText |-> h.plateText,
        provinceCode |-> h.result.parsed.provinceCode,
        letters |-> h.result.parsed.letters,
        digits |-> h.result.parsed.digits,
        plateType |-> h.result.plateType,
        provinceScore |-> h.result.breakdown.province,
        letterScore |-> h.result.breakdown.letters,
        digitScore |-> h.result.breakdown.digits,
        specialScore |-> h.result.breakdown.special,
        totalScore |-> h.result.totalScore ]

AddplateError == "There was an error adding your plate"

\* Mutant of AddplateFindOne: findOne is awaited outside the try block.
AddplateFindOne_outsideTry(i) ==
  /\ Awaiting(i, {"addplate"}, "findOne")
  /\ \E answers \in BOOLEAN :
       LET h == interactions[i]
           existingPlate ==
             findOne(store, {<<"userId", h.user.id>>, <<"plateText", h.plateText>>})
       IN  Resume(i,
             IF ~answers THEN throw(h, "MongoError")
             ELSE IF existingPlate # null
               THEN return(reply(h, Message("You already have this plate", <<>>)))
             ELSE await(h, "save"))
  /\ UNCHANGED <<store, otherVars>>

\* /addplate, from the answer of findOne up to await newPlate.save()
AddplateFindOne(i) ==
  /\ Awaiting(i, {"addplate"}, "findOne")
  /\ \E answers \in BOOLEAN :
       LET h == interactions[i]
           existingPlate ==
             findOne(store, {<<"userId", h.user.id>>, <<"plateText", h.plateText>>})
       IN  Resume(i,
             IF ~answers THEN catch(h, "MongoError", AddplateError)
             ELSE IF existingPlate # null
               THEN return(reply(h, Message("You already have this plate", <<>>)))
             ELSE await(h, "save"))
  /\ UNCHANGED <<store, otherVars>>

\* /addplate, from the answer of save to the end.  save validates the
\* document, then inserts it; the collection refuses a duplicate key.
AddplateSave(i) ==
  /\ Awaiting(i, {"addplate"}, "save")
  /\ \E answers \in BOOLEAN :
       LET h == interactions[i]
           err == IF ~validates(newPlate(i)) THEN "ValidationError"
                  ELSE IF ~answers THEN "MongoError"
                  ELSE IF violatesUniqueIndex(store, newPlate(i)) THEN "E11000 duplicate key"
                  ELSE "none"
       IN  IF err # "none"
             THEN /\ Resume(i, catch(h, err, AddplateError))
                  /\ UNCHANGED store
             ELSE /\ store' = Append(store, newPlate(i))
                  /\ Resume(i, return(reply(h, Message("New Plate Added", <<>>))))
  /\ UNCHANGED otherVars

\* /plateinfo, up to await Plate.find({ plateText }).sort({ dateSpotted: 1 })
Plateinfo ==
  /\ \E plate \in PlateOptions :
       Receive(await([handler("plateinfo", AnyUser, plate)
                        EXCEPT !.plateText = plateOption(plate)], "find"))
  /\ UNCHANGED <<store, otherVars>>

PlateinfoError == "There was an error retrieving information for this plate"

\* /plateinfo when no document has the plate text: the call of
\* calculatePlateScore returned result.
plateinfoEstimate(h, result) ==
  IF Threw(result) THEN catch(h, result.exception, PlateinfoError)
  ELSE return(reply(h, Message("No one has collected the plate yet",
                               <<result.totalScore>>)))

\* /plateinfo when documents have the plate text: the call of
\* parseTurkishPlate returned parsed.
plateinfoEmbed(h, plates, parsed) ==
  IF Threw(parsed) THEN catch(h, parsed.exception, PlateinfoError)
  ELSE return(reply(h, Message("License Plate Info",
                               <<plates[1].username, Len(plates)>>)))

\* /plateinfo from the answer plates of find.
plateinfoFound(h, plates) ==
  IF Len(plates) = 0
    THEN plateinfoEstimate(engineCall(h, "calculatePlateScore", h.plateText),
                           calculatePlateScore(h.plateText))
    ELSE plateinfoEmbed(engineCall(h, "parseTurkishPlate", h.plateText), plates,
                        parseTurkishPlate(h.plateText))

\* /plateinfo, from the answer of find to the end.
PlateinfoFind(i) ==
  /\ Awaiting(i, {"plateinfo"}, "find")
  /\ \E answers \in BOOLEAN :
       Resume(i,
         IF ~answers THEN catch(interactions[i], "MongoError", PlateinfoError)
         ELSE plateinfoFound(interactions[i],
                             find(store, {<<"plateText", interactions[i].plateText>>})))
  /\ UNCHANGED <<store, otherVars>>

\* { $limit: 10 }
LeaderboardLimit == 10

\* /leaderboard, up to await Plate.aggregate([...])
Leaderboard ==
  /\ Receive(await(handler("leaderboard", AnyUser, <<>>), "aggregate"))
  /\ UNCHANGED <<store, otherVars>>

\* /leaderboard, from the answer of aggregate to the end.
LeaderboardAggregate(i) ==
  /\ Awaiting(i, {"leaderboard"}, "aggregate")
  /\ \E answers \in BOOLEAN, order \in sorted(group(store)) :
       LET h == interactions[i]
           leaderboard == limit(order, LeaderboardLimit)
       IN  Resume(i,
             IF ~answers
               THEN catch(h, "MongoError", "There was an error retrieving the leaderboard")
             ELSE IF Len(leaderboard) = 0
               THEN return(reply(h, Message("No plates have been collected yet!", <<>>)))
             ELSE return(reply(h, Message("License Plate Collection Leaderboard",
                                          leaderboard))))
  /\ UNCHANGED <<store, otherVars>>

\* The commands that list the plates of interaction.user.
UserCommands == {"mycollection", "provinces", "types"}

\* /mycollection, /provinces, /types, up to
\* await Plate.find({ userId: interaction.user.id })
UserCommand ==
  /\ \E commandName \in UserCommands :
       Receive(await(handler(commandName, Asker, <<>>), "find"))
  /\ UNCHANGED <<store, otherVars>>

\* /mycollection, /provinces, /types, from the answer of find to the end.
UserCommandFind(i) ==
  /\ Awaiting(i, UserCommands, "find")
  /\ \E answers \in BOOLEAN :
       LET h == interactions[i]
           plates == find(store, {<<"userId", h.user.id>>})
       IN  Resume(i,
             IF ~answers
               THEN catch(h, "MongoError", "There was an error retrieving " \o h.commandName)
             ELSE IF Len(plates) = 0
               THEN return(reply(h, Message("You haven't collected any plates yet!", <<>>)))
             ELSE return(reply(h, Message(h.commandName, <<Len(plates)>>))))
  /\ UNCHANGED <<store, otherVars>>

\* .limit(10)
RareLimit == 10

\* /rare, up to await Plate.find().sort({ totalScore: -1 }).limit(10)
Rare ==
  /\ Receive(await(handler("rare", AnyUser, <<>>), "find"))
  /\ UNCHANGED <<store, otherVars>>

\* /rare, from the answer of find to the end.
RareFind(i) ==
  /\ Awaiting(i, {"rare"}, "find")
  /\ \E answers \in BOOLEAN, order \in sorted({store[n] : n \in DOMAIN store}) :
       LET h == interactions[i]
           rarestPlates == limit(order, RareLimit)
       IN  Resume(i,
             IF ~answers
               THEN catch(h, "MongoError", "There was an error retrieving rare plates")
             ELSE IF Len(rarestPlates) = 0
               THEN return(reply(h, Message("No plates have been collected yet!", <<>>)))
             ELSE return(reply(h, Message("Rarest License Plates",
                                          [n \in DOMAIN rarestPlates |->
                                             rarestPlates[n].totalScore]))))
  /\ UNCHANGED <<store, otherVars>>

\* /platehelp
Platehelp ==
  /\ Receive(return(reply(handler("platehelp", AnyUser, <<>>),
                          Message("License Plate Collector - Help", <<>>))))
  /\ UNCHANGED <<store, otherVars>>

InitBot ==
  /\ provinceTiers = provinceTiersLiteral
  /\ specialPlateTypes = specialPlateTypesLiteral
  /\ plateText = <<>>
  /\ called = "none"
  /\ ret = NoReturn
  /\ calls = <<>>
  /\ store = <<>>
  /\ interactions = <<>>

NextBot ==
  \/ Addplate
  \/ \E i \in DOMAIN interactions : AddplateFindOne(i)
  \/ \E i \in DOMAIN interactions : AddplateSave(i)
  \/ Plateinfo
  \/ \E i \in DOMAIN interactions : PlateinfoFind(i)
  \/ Leaderboard
  \/ \E i \in DOMAIN interactions : LeaderboardAggregate(i)
  \/ UserCommand
  \/ \E i \in DOMAIN interactions : UserCommandFind(i)
  \/ Rare
  \/ \E i \in DOMAIN interactions : RareFind(i)
  \/ Platehelp

SpecBot == InitBot /\ [][NextBot]_vars

(***************************************************************************)
(* Properties of the handler.                                              *)
(***************************************************************************)

\* The handlers that call into scoring.js.
EngineCommands == {"addplate", "plateinfo"}

\* The replies that tell the user of an error.
ErrorReplies ==
  { Message("Invalid Turkish license plate format", <<>>),
    Message(AddplateError, <<>>),
    Message(PlateinfoError, <<>>) }

\* C11: a handler that calls the scoring engine (addplate, plateinfo) calls it
\* only with a plate text of the canonical format, and one given a text of
\* another format ends with one reply, an error, and no call of the engine.
C11_ValidatedBeforeEngine ==
  \A i \in DOMAIN interactions :
     LET h == interactions[i]
     IN  h.commandName \in EngineCommands =>
           /\ \A n \in DOMAIN h.engine : IsCanonical(h.engine[n].plateText)
           /\ (h.returned /\ ~IsCanonical(h.plateText)) =>
                 /\ h.engine = <<>>
                 /\ Len(h.replies) = 1
                 /\ h.replies[1] \in ErrorReplies

\* C12: whatever the interleaving of the addplate handlers, no two documents
\* of the collection have the same userId and the same plateText.
C12_NoDuplicatePair ==
  \A m, n \in DOMAIN store :
     (store[m].userId = store[n].userId /\ store[m].plateText = store[n].plateText)
        => m = n

\* Two addplate interactions of one user for one plate both found no plate
\* with findOne; the save of one stored its document, the save of the other
\* was refused by the index.
C12_Witness ==
  \E i, j \in DOMAIN interactions :
     /\ interactions[i].commandName = "addplate"
     /\ interactions[j].commandName = "addplate"
     /\ interactions[i].user.id = interactions[j].user.id
     /\ interactions[i].plateText = interactions[j].plateText
     /\ \E n \in DOMAIN store : store[n]._id = i
     /\ interactions[j].caught = "E11000 duplicate key"
     /\ Len(store) = 1

\* The replies the catch blocks of the handlers send.
CatchReplies ==
  { Message(AddplateError, <<>>),
    Message(PlateinfoError, <<>>),
    Message("There was an error retrieving the leaderboard", <<>>),
    Message("There was an error retrieving rare plates", <<>>) }
  \cup { Message("There was an error retrieving " \o c, <<>>) : c \in UserCommands }

\* C16: no exception leaves a handler; a handler whose persistence operation
\* (findOne, find, aggregate, save) failed has caught the failure, has ended
\* and has sent one reply, the error reply of its catch block; an addplate
\* handler that caught a failure has left no document of its own in the
\* collection.
C16_FailureCaught ==
  \A i \in DOMAIN interactions :
     LET h == interactions[i]
     IN  /\ ~h.rejected
         /\ h.caught # "none" =>
               /\ h.returned
               /\ Len(h.replies) = 1
               /\ h.replies[1] \in CatchReplies
               /\ \A n \in DOMAIN store : store[n]._id # i

\* An addplate handler and a leaderboard handler have each caught a failed
\* persistence operation and replied with their error message, the collection
\* holding the plate of a third interaction.
C16_Witness ==
  \E i, j \in DOMAIN interactions :
     /\ interactions[i].commandName = "addplate"
     /\ interactions[i].caught = "MongoError"
     /\ interactions[i].replies = <<Message(AddplateError, <<>>)>>
     /\ interactions[j].commandName = "leaderboard"
     /\ interactions[j].caught = "MongoError"
     /\ Len(interactions[j].replies) = 1
     /\ Len(store) = 1

\* The collection holds a document of the user and the plate text of handler h.
PairHeld(h) ==
  \E n \in DOMAIN store :
     store[n].userId = h.user.id /\ store[n].plateText = h.plateText

\* The collection holds the document handler i built.
Stored(i) == \E n \in DOMAIN store : store[n]._id = i

\* C17: while the persistence layer works, an addplate handler that has ended
\* has sent exactly one reply; one that stored no document while a document
\* of its user and plate text is held has replied "You already have this
\* plate", never "There was an error adding your plate"; and one that has
\* sent the success embed has stored its document.
C17_OneFittingReply ==
  \A i \in DOMAIN interactions :
     LET h == interactions[i]
     IN  (h.commandName = "addplate" /\ h.caught # "MongoError") =>
           /\ h.returned <=> Len(h.replies) = 1
           /\ (h.returned /\ ~Stored(i) /\ PairHeld(h)) =>
                 h.replies = <<Message("You already have this plate", <<>>)>>
           /\ (\E n \in DOMAIN h.replies : h.replies[n] = Message("New Plate Added", <<>>))
                 => Stored(i)

\* The documents of the collection a user holds.
PlatesOf(userId) == SelectSeq(store, LAMBDA d : d.userId = userId)

RECURSIVE TotalOf(_)
TotalOf(docs) == IF docs = <<>> THEN 0 ELSE Head(docs).totalScore + TotalOf(Tail(docs))

RECURSIVE CountedIn(_)
CountedIn(entries) ==
  IF entries = <<>> THEN 0 ELSE Head(entries).plateCount + CountedIn(Tail(entries))

\* C18: a leaderboard sent has at most one entry for a userId, also when the
\* username of a user differs between their addplate interactions, and at
\* most 10 entries, in non-increasing order of totalScore; while no document
\* has been stored since, the plateCount and the totalScore of an entry are
\* the count and the sum over all documents of its user.
C18_LeaderboardPerUser ==
  \A i \in DOMAIN interactions :
     \A r \in DOMAIN interactions[i].replies :
        LET entries == interactions[i].replies[r].data
        IN  (interactions[i].commandName = "leaderboard" /\ entries # <<>>) =>
              /\ \A m, n \in DOMAIN entries :
                    entries[m]._id.userId = entries[n]._id.userId => m = n
              /\ Len(entries) <= 10
              /\ \A m, n \in DOMAIN entries :
                    m < n => entries[m].totalScore >= entries[n].totalScore
              /\ CountedIn(entries) = Len(store) =>
                    \A n \in DOMAIN entries :
                       /\ entries[n].plateCount = Len(PlatesOf(entries[n]._id.userId))
                       /\ entries[n].totalScore = TotalOf(PlatesOf(entries[n]._id.userId))

====
